---- MODULE Spec2Model ----
(***************************************************************************)
(* Model of usas_csv_auto_labeling.processing_text: the TaggedText record  *)
(* (a pydantic BaseModel with a length validator) and the tag_text         *)
(* generator, whose inner _process_text walks the tokens of one tagged     *)
(* unit, collects the MWE membership sets and numbers them.                *)
(*                                                                         *)
(* Token indexes are 0-based as in the source; TLA+ sequences are 1-based, *)
(* so the list element of token index i is seq[i + 1].                     *)
(***************************************************************************)
EXTENDS Integers, Sequences, FiniteSets, TLC

\* ------------------------------------------------------------------ bounds
\* Largest number of tokens of a generated unit (and of a list handed to the
\* TaggedText constructor directly).
MaxTokens == 3
\* Largest number of MWE ranges the tagger attaches to the tokens of one
\* generated unit, all tokens together.
MaxUnitRanges == 2
\* Largest number of sentences a sentence splitter returns.
MaxSentences == 2
\* Largest number of raw USAS tag strings on one token of a generated unit,
\* largest number of pieces in the raw tag strings of one generated unit, and
\* largest number of tokens of a unit generated for its tags or for the types
\* of its attributes.
MaxRawTags == 2
MaxTagPieces == 3
MaxVariedTokens == 2
\* Largest number of times tag_text is called on the same input.
MaxCalls == 2

\* ------------------------------------------------------- python primitives
\* Optional values: None and a present value.
None == [is_none |-> TRUE, val |-> <<>>]
Some(v) == [is_none |-> FALSE, val |-> v]

\* The elements of a list.
Range(seq) == {seq[i] : i \in 1..Len(seq)}

\* min() of a non-empty set of integers.
Min(S) == CHOOSE m \in S : \A x \in S : m <= x

\* range(start, end): the integers start, start+1, .., end-1.
PyRange(start, end) == {i \in start..(end - 1) : TRUE}

\* list[i] for a list of length n: the 1-based position read or written, 0
\* when the subscript raises IndexError.  Negative subscripts count from the
\* end of the list.
PyIndexClamped(i, n) ==
  IF i >= 0 /\ i < n THEN i + 1
  ELSE IF i < 0 /\ i >= 0 - n THEN n + i + 1
  ELSE IF i >= n THEN n
  ELSE 0
PyIndex(i, n) ==
  IF i >= 0 /\ i < n THEN i + 1
  ELSE IF i < 0 /\ i >= 0 - n THEN n + i + 1
  ELSE 0

\* All orders in which the elements of the finite set S can be enumerated.
RECURSIVE Orders(_)
Orders(S) ==
  IF S = {} THEN {<<>>}
  ELSE UNION {{<<x>> \o rest : rest \in Orders(S \ {x})} : x \in S}

\* Iterating a Python set: the order is a property of the hash table, not of
\* the language, so any order of the elements is a possible outcome.
SetIterationOrders(S) == Orders(S)

\* ------------------------------------------------------------- TaggedText
\* check_lists_match: "ok", or the field whose length differs from
\* len(tokens), in the order the validator tests them.
CheckFromLast(r) ==
  LET number_tokens == Len(r.tokens) IN
  IF number_tokens # Len(r.mwe_indexes) THEN "mwe_indexes"
  ELSE IF number_tokens # Len(r.usas_tags) THEN "usas_tags"
  ELSE IF ~r.pos_tags.is_none /\ number_tokens # Len(r.pos_tags.val) THEN "pos_tags"
  ELSE IF ~r.lemmas.is_none /\ number_tokens # Len(r.lemmas.val) THEN "lemmas"
  ELSE "ok"

CheckSkipsMWE(r) ==
  LET number_tokens == Len(r.tokens) IN
  IF ~r.lemmas.is_none /\ number_tokens # Len(r.lemmas.val) THEN "lemmas"
  ELSE IF ~r.pos_tags.is_none /\ number_tokens # Len(r.pos_tags.val) THEN "pos_tags"
  ELSE IF number_tokens # Len(r.usas_tags) THEN "usas_tags"
  ELSE "ok"

check_lists_match(r) ==
  LET number_tokens == Len(r.tokens) IN
  IF ~r.lemmas.is_none /\ number_tokens # Len(r.lemmas.val) THEN "lemmas"
  ELSE IF ~r.pos_tags.is_none /\ number_tokens # Len(r.pos_tags.val) THEN "pos_tags"
  ELSE IF number_tokens # Len(r.usas_tags) THEN "usas_tags"
  ELSE IF number_tokens # Len(r.mwe_indexes) THEN "mwe_indexes"
  ELSE "ok"

\* The length found in the field the validator complains about.
FieldLen(r, f) ==
  IF f = "lemmas" THEN Len(r.lemmas.val)
  ELSE IF f = "pos_tags" THEN Len(r.pos_tags.val)
  ELSE IF f = "usas_tags" THEN Len(r.usas_tags)
  ELSE Len(r.mwe_indexes)

\* Exceptions.  A length error carries the two lengths of its message, a type
\* error the two type names; the unused pair is -1 / "".
NoError ==
  [type |-> "none", field |-> "", expected_len |-> -1, actual_len |-> -1,
   expected_type |-> "", actual_type |-> ""]
LengthError(field, number_tokens, field_len) ==
  [type |-> "ValueError", field |-> field, expected_len |-> number_tokens,
   actual_len |-> field_len, expected_type |-> "", actual_type |-> ""]
TypeError(attribute_name, expected_type, actual_type) ==
  [type |-> "ValueError", field |-> attribute_name, expected_len |-> -1,
   actual_len |-> -1, expected_type |-> expected_type, actual_type |-> actual_type]
IndexError ==
  [type |-> "IndexError", field |-> "mwe_indexes", expected_len |-> -1,
   actual_len |-> -1, expected_type |-> "", actual_type |-> ""]
\* getattr(..) of a name the object does not have.
AttributeError(attribute_name) ==
  [type |-> "AttributeError", field |-> attribute_name, expected_len |-> -1,
   actual_len |-> -1, expected_type |-> "", actual_type |-> ""]
\* The parse failure of the Tag Parser.
TagParseError ==
  [type |-> "TagParseError", field |-> "usas", expected_len |-> -1,
   actual_len |-> -1, expected_type |-> "", actual_type |-> ""]
\* " ".join(..) of a list with an element that is not a str.
JoinTypeError ==
  [type |-> "TypeError", field |-> "usas", expected_len |-> -1,
   actual_len |-> -1, expected_type |-> "", actual_type |-> ""]
\* doc.sents of a Doc without sentence boundaries.
SentsError ==
  [type |-> "ValueError", field |-> "sents", expected_len |-> -1,
   actual_len |-> -1, expected_type |-> "", actual_type |-> ""]

\* TaggedText(text=.., tokens=.., ..): the fields are stored as given and the
\* after-validator runs on them; a failed validation leaves no object.
TaggedText(text, tokens, lemmas, pos_tags, usas_tags, mwe_indexes) ==
  LET r == [text |-> text, tokens |-> tokens, lemmas |-> lemmas,
            pos_tags |-> pos_tags, usas_tags |-> usas_tags,
            mwe_indexes |-> mwe_indexes]
      verdict == check_lists_match(r)
  IN  IF verdict = "ok"
      THEN [ok |-> TRUE, value |-> Some(r), error |-> NoError]
      ELSE [ok |-> FALSE, value |-> None,
            error |-> LengthError(verdict, Len(tokens), FieldLen(r, verdict))]

\* ------------------------------------------------------------ tagger output
\* A token attribute as the tagger left it: its Python type and its value.
\* The type "missing" stands for an attribute the token does not have.
Attr(type, val) == [type |-> type, val |-> val]

\* A str is the sequence of its pieces: a tag code ("Z5"), a marker ("+"),
\* the separator "/" or a blank " ".  The raw USAS tags of a token are a list
\* of such strings.
Codes == {"Z5", "Z3", "Z2", "A1.1.1", "PUNCT"}
Markers == {"+"}
TagAlphabet == {"Z5", "Z3", "+", "/", " "}

\* One token of a tagged Doc, the one with index token_index: text, lemma_,
\* pos_ and the two custom extensions (raw USAS tag strings, MWE ranges
\* <<start, end>>).  The words of a Doc differ from token to token.
Token(token_index, usas, ranges) ==
  [text |-> Attr("str", <<"w", token_index>>),
   lemma |-> Attr("str", <<"l", token_index>>),
   pos |-> Attr("str", <<"p", token_index>>),
   usas |-> Attr("list", usas), mwe |-> Attr("list", ranges)]

\* The ranges a generated token can carry: 0 <= start < end <= MaxTokens.  A
\* unit shorter than MaxTokens therefore also sees ranges that leave it.
RangeValues == {r \in (0..MaxTokens) \X (0..MaxTokens) : r[1] < r[2]}

\* The lists of exactly n ranges, and of at most n ranges.
RECURSIVE RangeLists(_)
RangeLists(n) ==
  IF n = 0 THEN {<<>>}
  ELSE {<<r>> \o rest : r \in RangeValues, rest \in RangeLists(n - 1)}
RangeListsUpTo(n) == UNION {RangeLists(j) : j \in 0..n}

\* Number of MWE ranges on the tokens of a Doc.
RECURSIVE CountRanges(_)
CountRanges(d) ==
  IF d = <<>> THEN 0 ELSE Len(d[1].mwe.val) + CountRanges(Tail(d))

\* The strings of exactly n pieces.
RECURSIVE RawStrings(_)
RawStrings(n) ==
  IF n = 0 THEN {<<>>}
  ELSE {<<a>> \o s : a \in TagAlphabet, s \in RawStrings(n - 1)}

\* The lists of exactly j raw tag strings that hold c pieces together, and the
\* lists of at most MaxRawTags strings that hold at most c pieces.
RECURSIVE RawTagLists(_, _)
RawTagLists(j, c) ==
  IF j = 0 THEN (IF c = 0 THEN {<<>>} ELSE {})
  ELSE UNION {{<<s>> \o rest : s \in RawStrings(n), rest \in RawTagLists(j - 1, c - n)} :
                n \in 0..c}
RawTagListsUpTo(c) == UNION {RawTagLists(j, n) : j \in 0..MaxRawTags, n \in 0..c}

\* Number of pieces in the raw USAS tags of the tokens of a Doc.
RECURSIVE CountPieces(_)
SumLen(strings) ==
  LET RECURSIVE Sum(_)
      Sum(i) == IF i = 0 THEN 0 ELSE Len(strings[i]) + Sum(i - 1)
  IN  Sum(Len(strings))
CountPieces(d) ==
  IF d = <<>> THEN 0 ELSE SumLen(d[1].usas.val) + CountPieces(Tail(d))

\* The tagger output of test_tag_text_simple: On the river Nile.
NileRanges ==
  << <<<<0, 1>>, <<2, 4>>>>, <<<<1, 2>>>>, <<<<0, 1>>, <<2, 4>>>>, <<<<0, 1>>, <<2, 4>>>> >>
NileTags ==
  << << <<"Z5">> >>, << <<"A1.1.1">> >>, << <<"Z3">>, <<"Z2">> >>, << <<"Z3">>, <<"Z2">> >> >>
NileDoc == [i \in 1..4 |-> Token(i - 1, NileTags[i], NileRanges[i])]

\* The same Doc from the tagger of the test's error case, whose USAS
\* extension holds a str instead of a list.
WrongTypeDoc ==
  [i \in 1..4 |-> [Token(i - 1, <<>>, NileRanges[i]) EXCEPT !.usas = Attr("str", <<>>)]]

\* A Doc of three tokens whose first two tokens name the MWEs {0, 1} and
\* {0, 1, 2}: two membership sets with the same minimum.
TieRanges == << <<<<0, 2>>>>, <<<<0, 3>>>>, <<>> >>
TieDoc == [i \in 1..3 |-> Token(i - 1, << <<"Z5">> >>, TieRanges[i])]

\* An element of a list that is not a str (an int), and the USAS lists a
\* token of any type can hold: strs, or something else.
NonStr == <<"<int>">>
ElementValues == {<< <<"Z5">> >>, <<NonStr>>}

\* The types an attribute of a token can be found with: the expected one,
\* another one, or no attribute at all.
AttrTypes(expected_type) == {expected_type, "NoneType", "missing"}

\* The tagging pipelines of the model, by the Docs they return:
\*   "mwe"    Docs of well-typed tokens with any MWE ranges, and the two Docs
\*            of the tests;
\*   "fixed"  the Docs of the tests, TieDoc and Docs without MWE ranges;
\*   "tags"   Docs of well-typed tokens with any raw USAS tags, and NileDoc;
\*   "types"  Docs whose attributes have any of AttrTypes.
Taggers == {"mwe", "fixed", "tags", "types"}

\* What a tagger can return for a unit: a generated Doc of n tokens, whose
\* tokens are drawn as the loop reaches them, or one of the fixed Docs.
DocSources(tagger_kind) ==
  IF tagger_kind = "mwe"
  THEN {[kind |-> "generated", len |-> n] : n \in 0..MaxTokens}
         \cup {[kind |-> "nile", len |-> 4], [kind |-> "wrong_type", len |-> 4]}
  ELSE IF tagger_kind = "fixed"
  THEN {[kind |-> "plain", len |-> n] : n \in 0..MaxTokens}
         \cup {[kind |-> "nile", len |-> 4], [kind |-> "wrong_type", len |-> 4],
               [kind |-> "tie", len |-> 3]}
  ELSE IF tagger_kind = "tags"
  THEN {[kind |-> "tags", len |-> n] : n \in 1..MaxVariedTokens}
         \cup {[kind |-> "nile", len |-> 4]}
  ELSE {[kind |-> "types", len |-> n] : n \in 1..MaxVariedTokens}
         \cup {[kind |-> "wrong_type", len |-> 4]}

\* The tokens a Doc of source src can hold after the tokens in read.
NextTokens(src, read) ==
  LET token_index == Len(read) IN
  IF src.kind = "nile" THEN {NileDoc[token_index + 1]}
  ELSE IF src.kind = "wrong_type" THEN {WrongTypeDoc[token_index + 1]}
  ELSE IF src.kind = "tie" THEN {TieDoc[token_index + 1]}
  ELSE IF src.kind = "plain" THEN {Token(token_index, << <<"Z5">> >>, <<>>)}
  ELSE IF src.kind = "tags"
  THEN {Token(token_index, tags, <<>>) :
          tags \in RawTagListsUpTo(MaxTagPieces - CountPieces(read))}
  ELSE IF src.kind = "types"
  THEN {[text |-> Attr(t1, <<"w", token_index>>),
         lemma |-> Attr(t2, <<"l", token_index>>),
         pos |-> Attr(t3, <<"p", token_index>>),
         usas |-> Attr(t4, elements),
         mwe |-> Attr(t5, <<>>)] :
          t1 \in AttrTypes("str"), t2 \in AttrTypes("str"), t3 \in AttrTypes("str"),
          t4 \in AttrTypes("list"), t5 \in AttrTypes("list"),
          elements \in ElementValues}
  ELSE {Token(token_index, << <<"Z5">> >>, rs) :
          rs \in RangeListsUpTo(MaxUnitRanges - CountRanges(read))}

\* ------------------------------------------------------------- tag_text
\* get_spacy_attribute: getattr raises AttributeError for a name the token
\* does not have; a value of another type than expected raises the
\* ValueError of lines 181-183.
ChecksElements(token, attribute_name, expected_type) ==
  LET attribute_value == token[attribute_name] IN
  IF attribute_value.type = "missing"
  THEN [ok |-> FALSE, value |-> attribute_value.val,
        error |-> AttributeError(attribute_name)]
  ELSE IF attribute_value.type # expected_type
  THEN [ok |-> FALSE, value |-> attribute_value.val,
        error |-> TypeError(attribute_name, expected_type, attribute_value.type)]
  ELSE IF attribute_name = "usas" /\ NonStr \in Range(attribute_value.val)
  THEN [ok |-> FALSE, value |-> attribute_value.val,
        error |-> TypeError(attribute_name, "list[str]", "list")]
  ELSE [ok |-> TRUE, value |-> attribute_value.val, error |-> NoError]
AcceptsAnyType(token, attribute_name, expected_type) ==
  LET attribute_value == token[attribute_name] IN
  IF attribute_value.type = "missing"
  THEN [ok |-> FALSE, value |-> attribute_value.val,
        error |-> AttributeError(attribute_name)]
  ELSE [ok |-> TRUE, value |-> attribute_value.val, error |-> NoError]
get_spacy_attribute(token, attribute_name, expected_type) ==
  LET attribute_value == token[attribute_name] IN
  IF attribute_value.type = "missing"
  THEN [ok |-> FALSE, value |-> attribute_value.val,
        error |-> AttributeError(attribute_name)]
  ELSE IF attribute_value.type = expected_type
  THEN [ok |-> TRUE, value |-> attribute_value.val, error |-> NoError]
  ELSE [ok |-> FALSE, value |-> attribute_value.val,
        error |-> TypeError(attribute_name, expected_type, attribute_value.type)]

\* get_all_mwe_token_indexes: the token indexes the ranges of one token
\* cover, range by range.
RECURSIVE get_all_mwe_token_indexes(_)
get_all_mwe_token_indexes(ranges) ==
  IF ranges = <<>> THEN {}
  ELSE PyRange(ranges[1][1], ranges[1][2]) \cup get_all_mwe_token_indexes(Tail(ranges))

\* " ".join(usas_tags)
RECURSIVE JoinWithoutBlank(_)
JoinWithoutBlank(strings) ==
  IF strings = <<>> THEN <<>> ELSE strings[1] \o JoinWithoutBlank(Tail(strings))
RECURSIVE Join(_)
Join(strings) ==
  IF strings = <<>> THEN <<>>
  ELSE IF Len(strings) = 1 THEN strings[1]
  ELSE strings[1] \o <<" ">> \o Join(Tail(strings))

\* s.split(sep): the pieces of s between the occurrences of sep, empty ones
\* included.
RECURSIVE SplitOn(_, _)
SplitOn(s, sep) ==
  IF \A i \in 1..Len(s) : s[i] # sep THEN <<s>>
  ELSE LET p == Min({i \in 1..Len(s) : s[i] = sep})
       IN  <<SubSeq(s, 1, p - 1)>> \o SplitOn(SubSeq(s, p + 1, Len(s)), sep)

\* Splitting on whitespace: the maximal runs of s without a blank.
IsNotEmpty(s) == s # <<>>
SplitWhitespace(s) == SelectSeq(SplitOn(s, " "), IsNotEmpty)

\* The Tag Parser: a code followed by markers gives a USASTag, anything else
\* (the empty string too) is a parse failure.
NoTag == [tag |-> "", number_positive_markers |-> 0]
parse_usas_tag(raw) ==
  IF raw # <<>> /\ raw[1] \in Codes /\ \A i \in 2..Len(raw) : raw[i] \in Markers
  THEN [ok |-> TRUE,
        value |-> [tag |-> raw[1], number_positive_markers |-> Len(raw) - 1]]
  ELSE [ok |-> FALSE, value |-> NoTag]

\* The Tag Group Parser, parse_usas_token_group: the groups of the string in
\* order, each with the tags of its "/"-separated alternatives in order; the
\* parse failure of an alternative is the failure of the whole.
parse_usas_token_group(joined) ==
  LET raw_groups == SplitWhitespace(joined)
      Alternatives(j) == SplitOn(raw_groups[j], "/")
      parsed == [j \in 1..Len(raw_groups) |->
                   [a \in 1..Len(Alternatives(j)) |-> parse_usas_tag(Alternatives(j)[a])]]
  IN  IF \A j \in 1..Len(parsed) : \A a \in 1..Len(parsed[j]) : parsed[j][a].ok
      THEN [ok |-> TRUE, error |-> NoError,
            value |-> [j \in 1..Len(parsed) |->
                         [tags |-> [a \in 1..Len(parsed[j]) |-> parsed[j][a].value]]]]
      ELSE [ok |-> FALSE, error |-> TagParseError, value |-> <<>>]

\* token_usas_tag_groups = parse_usas_token_group(" ".join(usas_tags)): the
\* call stands in no try block, so the parser's failure is the unit's.
\* str.join raises TypeError for an element that is not a str.
ParseSkippingFailure(usas_tags) ==
  LET parsed == parse_usas_token_group(Join(usas_tags))
  IN  IF parsed.ok THEN parsed ELSE [ok |-> TRUE, error |-> NoError, value |-> <<>>]
ParseTokenTags(usas_tags) ==
  IF \E i \in 1..Len(usas_tags) : usas_tags[i] = NonStr
  THEN [ok |-> FALSE, error |-> JoinTypeError, value |-> <<>>]
  ELSE parse_usas_token_group(Join(usas_tags))

\* if len(token_mwe_indexes) > 1
KeepsSingletons(token_mwe_indexes) == Cardinality(token_mwe_indexes) > 0
IsMWE(token_mwe_indexes) == Cardinality(token_mwe_indexes) > 1

\* The pair added to all_mwe_token_indexes_with_min_value for the token at
\* token_index.
EntryKeyedByToken(token_mwe_indexes, token_index) == <<token_mwe_indexes, token_index>>
MWEEntry(token_mwe_indexes, token_index) == <<token_mwe_indexes, Min(token_mwe_indexes)>>

\* sorted(.., key=lambda x: x[1]) of a list: stable insertion by x[1].
RECURSIVE SortedByMin(_)
InsertByMaxFirst(x, sorted) ==
  LET before == {i \in 1..Len(sorted) : sorted[i][2] >= x[2]}
      n == Cardinality(before)
  IN  SubSeq(sorted, 1, n) \o <<x>> \o SubSeq(sorted, n + 1, Len(sorted))
InsertByMin(x, sorted) ==
  LET before == {i \in 1..Len(sorted) : sorted[i][2] <= x[2]}
      n == Cardinality(before)
  IN  SubSeq(sorted, 1, n) \o <<x>> \o SubSeq(sorted, n + 1, Len(sorted))
Unsorted(list) == list
SortedByMin(list) ==
  IF list = <<>> THEN <<>>
  ELSE InsertByMin(list[Len(list)], SortedByMin(SubSeq(list, 1, Len(list) - 1)))

\* enumerate(.., start=1): the value paired with the element at position
\* (1-based) of the sorted list.
EnumerateFromZero(position) == position - 1
Enumerate(position) == position

\* mwe_indexes[mwe_index].add(mwe_index_value)
ReplaceID(ids, mwe_index_value) == {mwe_index_value}
AddID(ids, mwe_index_value) == ids \cup {mwe_index_value}

\* The two nested loops over the sorted pairs: entry number v of the sorted
\* list gives the value Enumerate(v) to every index of its set.
\* ok is FALSE when a subscript raises IndexError.
RECURSIVE AssignIDs(_, _, _)
AssignToIndexes(mwe, indexes, value) ==
  [i \in 1..Len(mwe) |->
     IF \E x \in indexes : PyIndex(x, Len(mwe)) = i THEN AddID(mwe[i], value) ELSE mwe[i]]
AssignIDs(mwe, sorted, v) ==
  IF v > Len(sorted) THEN [ok |-> TRUE, mwe_indexes |-> mwe]
  ELSE IF \E x \in sorted[v][1] : PyIndex(x, Len(mwe)) = 0
       THEN [ok |-> FALSE, mwe_indexes |-> mwe]
       ELSE AssignIDs(AssignToIndexes(mwe, sorted[v][1], Enumerate(v)),
                      sorted, v + 1)

\* ------------------------------------------------------------------ state
VARIABLES
  pc,               \* where the caller / the generator stands
  consumer,         \* "stream": for .. in tag_text(..); "list": list(tag_text(..))
  tagger,           \* the tagging pipeline passed, by the Docs it returns
  splitter,         \* TRUE when a sentence_splitter is passed
  sent_start,       \* TRUE when the splitter's pipeline sets sentence boundaries
  lemma_ext,        \* TRUE when lemma_token_extension is not None
  pos_ext,          \* TRUE when pos_token_extension is not None
  text,             \* the input text: the sequence of its sentences 1..n
  k,                \* number of units _process_text has been entered for
  doc_src,          \* tagged_text: which Doc the tagger returned for the unit
  doc,              \* tagged_text: its tokens as far as the loop has read them
  ti,               \* number of tokens of doc the loop has consumed
  tokens, lemmas, pos_tags, usas_tag_groups, mwe_indexes,
  all_mwe,          \* all_mwe_token_indexes_with_min_value
  out,              \* the record yielded / constructed last (None: none)
  err,              \* the exception that left the generator / constructor
  delivered,        \* the text of each record the consumer was handed
  collected,        \* the records a list(..) consumer holds
  units,            \* history: the Doc behind each record the consumer kept
  memo,             \* what the pure tagger and the hash tables did before
  worksheet,        \* the cells written to the worksheet, in writing order
  worksheet_row_index

vars == <<pc, consumer, tagger, splitter, sent_start, lemma_ext, pos_ext, text, k,
          doc_src, doc, ti, tokens, lemmas, pos_tags, usas_tag_groups, mwe_indexes,
          all_mwe, out, err, delivered, collected, units, memo, worksheet,
          worksheet_row_index>>

sheet == <<worksheet, worksheet_row_index>>
config == <<consumer, tagger, splitter, sent_start, lemma_ext, pos_ext, text>>
locals == <<tokens, lemmas, pos_tags, usas_tag_groups, mwe_indexes, all_mwe>>

\* The texts of the model: n sentences, numbered.
Texts == {[i \in 1..n |-> i] : n \in 0..MaxSentences}

\* The units of a call: the sentences the splitter returns, or the text.
NeverSplits == <<text>>
AlwaysSplits == [i \in 1..Len(text) |-> <<text[i]>>]
Sentences == IF splitter THEN [i \in 1..Len(text) |-> <<text[i]>>] ELSE <<text>>

\* spacy_sentence_splitter: the numbers of tokens the splitter's pipeline can
\* find in the text (none in the empty text, at least one per sentence).
SplitterDocLens ==
  IF text = <<>> THEN {0} ELSE {n \in 1..(MaxTokens + 1) : n >= Len(text)}

\* doc.sents of a Doc of n tokens: it raises ValueError unless the Doc has
\* sentence boundaries, which a Doc of fewer than two tokens always has.
SentsAvailable(n) == sent_start \/ n < 2

\* The splitter's generator yields its sentences / raises.
SplitterYields == ~splitter \/ \E n \in SplitterDocLens : SentsAvailable(n)
SplitterFails == splitter /\ \E n \in SplitterDocLens : ~SentsAvailable(n)

NoDoc == [kind |-> "none", len |-> 0]

\* The memory of what a pure tagger returned for a unit text, of the order
\* the hash table of the unit's set was iterated in, and of the outcome;
\* final: how the first call ended.  Kept only when the same input is
\* processed again (on).
NoEntry ==
  [known |-> FALSE, src |-> NoDoc, doc |-> <<>>, order |-> <<>>, out |-> None,
   err |-> NoError]
NoFinal == [known |-> FALSE, k |-> 0, err |-> NoError, delivered |-> <<>>]
NoMemo == [on |-> FALSE, calls |-> 1, seen |-> <<>>, final |-> NoFinal]

\* No workbook is open.
NoWorksheet ==
  /\ worksheet = [headers |-> <<>>, rows |-> <<>>]
  /\ worksheet_row_index = 0

InitCommon ==
  /\ k = 0 /\ doc_src = NoDoc /\ doc = <<>> /\ ti = 0
  /\ tokens = <<>> /\ lemmas = <<>> /\ pos_tags = <<>>
  /\ usas_tag_groups = <<>> /\ mwe_indexes = <<>> /\ all_mwe = {}
  /\ out = None /\ err = NoError
  /\ delivered = <<>> /\ collected = <<>> /\ units = <<>>

\* tag_text(text, tagger, ..) called by a consumer that uses each record and
\* drops it (tag_to_excel_sheet).
Init ==
  /\ pc = "created"
  /\ consumer = "stream"
  /\ tagger = "mwe"
  /\ splitter \in BOOLEAN /\ sent_start = TRUE
  /\ lemma_ext \in BOOLEAN /\ pos_ext \in BOOLEAN
  /\ text \in Texts
  /\ memo = NoMemo
  /\ InitCommon /\ NoWorksheet

\* The unit in work, and whether it repeats a unit seen before.
Unit == Sentences[k]
Repeats(unit) == memo.on /\ memo.seen[unit].known

\* The memory after the unit in work ended with record o / exception e.
Remember(unit_doc, o, e) ==
  IF memo.on /\ ~memo.seen[Unit].known
  THEN [memo EXCEPT !.seen[Unit] =
          [@ EXCEPT !.known = TRUE, !.src = doc_src, !.doc = unit_doc,
                    !.out = o, !.err = e]]
  ELSE memo

\* The tokens the tagger's Doc can hold at the loop's position: a pure
\* tagger returns for a text the Doc it returned before.
TaggerTokens ==
  IF Repeats(Unit) /\ ti < Len(memo.seen[Unit].doc)
  THEN {memo.seen[Unit].doc[ti + 1]}
  ELSE NextTokens(doc_src, doc)

\* The orders the set can be iterated in: the order is a function of the
\* insertions into the hash table, so a unit that repeats an earlier unit
\* iterates as that one did.
HashOrders ==
  IF Repeats(Unit) /\ memo.seen[Unit].order \in SetIterationOrders(all_mwe)
  THEN {memo.seen[Unit].order}
  ELSE SetIterationOrders(all_mwe)

\* The locals of _process_text before its loop.
StaleLocals == UNCHANGED locals
FreshLocals ==
  /\ tokens' = <<>> /\ lemmas' = <<>> /\ pos_tags' = <<>>
  /\ usas_tag_groups' = <<>> /\ mwe_indexes' = <<>> /\ all_mwe' = {}

\* The consumer is done with the record it was handed and asks for the next
\* one: a list(..) keeps the record, a for loop drops it.  _process_text has
\* returned, so its frame is gone.
Consume ==
  /\ pc = "yielded"
  /\ IF consumer = "list"
     THEN collected' = Append(collected, out.val) /\ units' = Append(units, doc)
     ELSE UNCHANGED <<collected, units>>
  /\ delivered' = Append(delivered, out.val.text)
  /\ out' = None
  /\ doc_src' = NoDoc /\ doc' = <<>> /\ ti' = 0
  /\ FreshLocals
  /\ pc' = "head"
  /\ UNCHANGED <<sheet, config, k, err, memo>>

\* The first request with a splitter whose pipeline sets no sentence
\* boundaries: doc.sents raises inside the splitter's generator.
SplitterRaises ==
  /\ pc = "created"
  /\ SplitterFails
  /\ pc' = "failed"
  /\ err' = SentsError
  /\ UNCHANGED <<sheet, config, k, doc_src, doc, ti, locals, out, delivered, collected,
                 units, memo>>

\* The loop head with a unit left: the unit goes to _process_text, which
\* calls the tagger and sets up its locals.
StartUnit ==
  /\ pc \in {"created", "head"}
  /\ pc = "created" => SplitterYields
  /\ k < Len(Sentences)
  /\ IF Repeats(Sentences[k + 1])
     THEN doc_src' = memo.seen[Sentences[k + 1]].src
     ELSE \E src \in DocSources(tagger) : doc_src' = src
  /\ doc' = <<>>
  /\ FreshLocals
  /\ ti' = 0 /\ k' = k + 1
  /\ pc' = "loop"
  /\ UNCHANGED <<sheet, config, out, err, delivered, collected, units, memo>>

\* The loop head with no unit left: the generator returns (StopIteration).
Exhausted ==
  /\ pc \in {"created", "head"}
  /\ pc = "created" => SplitterYields
  /\ k = Len(Sentences)
  /\ pc' = "done"
  /\ UNCHANGED <<sheet, config, k, doc_src, doc, ti, locals, out, err, delivered,
                 collected, units, memo>>

\* One iteration of "for token in tagged_text".
TokenStep ==
  /\ pc = "loop"
  /\ ti < doc_src.len
  /\ \E token \in TaggerTokens :
     LET token_text == get_spacy_attribute(token, "text", "str")
         lemma == get_spacy_attribute(token, "lemma", "str")
         pos_tag == get_spacy_attribute(token, "pos", "str")
         usas_tags == get_spacy_attribute(token, "usas", "list")
         token_usas_tag_groups == ParseTokenTags(usas_tags.value)
         token_mwe_indexes_range == get_spacy_attribute(token, "mwe", "list")
         token_mwe_indexes == get_all_mwe_token_indexes(token_mwe_indexes_range.value)
         failure ==
           IF ~token_text.ok THEN token_text.error
           ELSE IF lemma_ext /\ ~lemma.ok THEN lemma.error
           ELSE IF pos_ext /\ ~pos_tag.ok THEN pos_tag.error
           ELSE IF ~usas_tags.ok THEN usas_tags.error
           ELSE IF ~token_usas_tag_groups.ok THEN token_usas_tag_groups.error
           ELSE IF ~token_mwe_indexes_range.ok THEN token_mwe_indexes_range.error
           ELSE NoError
     IN  IF failure # NoError
         THEN /\ err' = failure
              /\ pc' = "failed"
              /\ doc' = Append(doc, token)
              /\ memo' = Remember(doc', None, failure)
              /\ UNCHANGED <<ti, locals>>
         ELSE /\ doc' = Append(doc, token)
              /\ tokens' = Append(tokens, token_text.value)
              /\ lemmas' = IF lemma_ext THEN Append(lemmas, lemma.value) ELSE lemmas
              /\ pos_tags' = IF pos_ext THEN Append(pos_tags, pos_tag.value) ELSE pos_tags
              /\ usas_tag_groups' = Append(usas_tag_groups, token_usas_tag_groups.value)
              /\ all_mwe' = IF IsMWE(token_mwe_indexes)
                            THEN all_mwe \cup {MWEEntry(token_mwe_indexes, ti)}
                            ELSE all_mwe
              /\ mwe_indexes' = Append(mwe_indexes, {})
              /\ ti' = ti + 1
              /\ UNCHANGED <<pc, err, memo>>
  /\ UNCHANGED <<sheet, config, k, doc_src, out, delivered, collected, units>>

\* After the loop: sort the pairs by their minimum and hand out the values.
ResolveMWE ==
  /\ pc = "loop"
  /\ ti = doc_src.len
  /\ \E iteration \in HashOrders :
       LET sorted_all == SortedByMin(iteration)
           assigned == AssignIDs(mwe_indexes, sorted_all, 1)
           iterated == IF memo.on /\ ~memo.seen[Unit].known
                       THEN [memo EXCEPT !.seen[Unit].order = iteration]
                       ELSE memo
       IN  IF assigned.ok
           THEN /\ mwe_indexes' = assigned.mwe_indexes
                /\ pc' = "resolved"
                /\ err' = err
                /\ memo' = iterated
           ELSE /\ mwe_indexes' = mwe_indexes
                /\ pc' = "failed"
                /\ err' = IndexError
                /\ memo' = IF memo.on /\ ~memo.seen[Unit].known
                           THEN [memo EXCEPT !.seen[Unit] =
                                   [known |-> TRUE, src |-> doc_src, doc |-> doc,
                                    order |-> iteration, out |-> None,
                                    err |-> IndexError]]
                           ELSE memo
  /\ UNCHANGED <<sheet, config, k, doc_src, doc, ti, tokens, lemmas, pos_tags,
                 usas_tag_groups, all_mwe, out, delivered, collected, units>>

\* if lemma_token_extension is None: lemmas = None (and so for pos_tags).
NoneWhenConfigured(configured, list) == None
EmptyListWhenAbsent(configured, list) == Some(list)
OptionalList(configured, list) == IF configured THEN Some(list) ELSE None

\* The end of _process_text and the yield: lemmas / pos_tags become None when
\* not configured, the record is constructed and handed to the consumer.
YieldRecord ==
  /\ pc = "resolved"
  /\ LET built == TaggedText(Sentences[k], tokens,
                             OptionalList(lemma_ext, lemmas),
                             OptionalList(pos_ext, pos_tags),
                             usas_tag_groups, mwe_indexes)
     IN  IF built.ok
         THEN /\ out' = built.value /\ pc' = "yielded" /\ err' = err
              /\ memo' = Remember(doc, built.value, NoError)
         ELSE /\ out' = None /\ pc' = "failed" /\ err' = built.error
              /\ memo' = Remember(doc, None, built.error)
  /\ UNCHANGED <<sheet, config, k, doc_src, doc, ti, locals, delivered, collected, units>>

\* A request after the exception: a generator that raised is finished, so
\* the request finds it exhausted.  The frame of _process_text is gone.
ResumesAfterFailure ==
  /\ pc = "failed"
  /\ pc' = "head"
  /\ doc_src' = NoDoc /\ doc' = <<>> /\ ti' = 0
  /\ FreshLocals
  /\ UNCHANGED <<sheet, config, k, out, err, delivered, collected, units, memo>>
Closed ==
  /\ pc = "failed"
  /\ pc' = "done"
  /\ doc_src' = NoDoc /\ doc' = <<>> /\ ti' = 0
  /\ FreshLocals
  /\ UNCHANGED <<sheet, config, k, out, err, delivered, collected, units, memo>>

Next == StartUnit \/ Exhausted \/ TokenStep \/ ResolveMWE \/ YieldRecord \/ Consume
          \/ Closed

Spec == Init /\ [][Next]_vars

\* A call with a splitter that returns MaxSentences sentences and with the
\* default lemma / POS configuration, consumed by a for loop.
InitUnit ==
  /\ pc = "created"
  /\ consumer = "stream"
  /\ tagger = "mwe"
  /\ splitter = TRUE /\ sent_start = TRUE
  /\ lemma_ext = FALSE /\ pos_ext = FALSE
  /\ text = [i \in 1..MaxSentences |-> i]
  /\ memo = NoMemo
  /\ InitCommon /\ NoWorksheet

SpecUnit == InitUnit /\ [][Next]_vars

\* The same call consumed by list(tag_text(..)), as the tests do.
InitList ==
  /\ pc = "created"
  /\ consumer = "list"
  /\ tagger = "mwe"
  /\ splitter = TRUE /\ sent_start = TRUE
  /\ lemma_ext = FALSE /\ pos_ext = FALSE
  /\ text = [i \in 1..MaxSentences |-> i]
  /\ memo = NoMemo
  /\ InitCommon /\ NoWorksheet

SpecList == InitList /\ [][Next]_vars

\* Calls with and without a splitter, whose pipeline may lack sentence
\* boundaries, on texts of any number of sentences.
InitSplit ==
  /\ pc = "created"
  /\ consumer = "stream"
  /\ tagger = "fixed"
  /\ splitter \in BOOLEAN /\ sent_start \in BOOLEAN
  /\ splitter \/ sent_start
  /\ lemma_ext = FALSE /\ pos_ext = FALSE
  /\ text \in Texts
  /\ memo = NoMemo
  /\ InitCommon /\ NoWorksheet

NextSplit == Next \/ SplitterRaises

SpecSplit == InitSplit /\ [][NextSplit]_vars

\* Calls on a tagger whose attributes have any type, with every lemma / POS
\* configuration.
InitTypes ==
  /\ pc = "created"
  /\ consumer = "stream"
  /\ tagger = "types"
  /\ splitter = TRUE /\ sent_start = TRUE
  /\ lemma_ext \in BOOLEAN /\ pos_ext \in BOOLEAN
  /\ text = [i \in 1..MaxSentences |-> i]
  /\ memo = NoMemo
  /\ InitCommon /\ NoWorksheet

SpecTypes == InitTypes /\ [][Next]_vars

\* Calls on a tagger that returns any raw USAS tags.
InitTags ==
  /\ pc = "created"
  /\ consumer = "stream"
  /\ tagger = "tags"
  /\ splitter = TRUE /\ sent_start = TRUE
  /\ lemma_ext = FALSE /\ pos_ext = FALSE
  /\ text = [i \in 1..MaxSentences |-> i]
  /\ memo = NoMemo
  /\ InitCommon /\ NoWorksheet

SpecTags == InitTags /\ [][Next]_vars

\* tag_text called up to MaxCalls times with the same text, tagger, splitter
\* and configuration; the text may repeat a sentence.
ReplayTexts == UNION {[1..n -> 1..MaxSentences] : n \in 0..MaxSentences}

InitReplay ==
  /\ pc = "created"
  /\ consumer = "stream"
  /\ tagger = "fixed"
  /\ splitter \in BOOLEAN /\ sent_start = TRUE
  /\ lemma_ext = FALSE /\ pos_ext = FALSE
  /\ text \in ReplayTexts
  /\ memo = [on |-> TRUE, calls |-> 1, seen |-> [u \in Range(Sentences) |-> NoEntry],
             final |-> NoFinal]
  /\ InitCommon /\ NoWorksheet

\* The caller calls tag_text again after the iteration has ended.
Restart ==
  /\ pc = "done"
  /\ memo.on /\ memo.calls < MaxCalls
  /\ pc' = "created"
  /\ k' = 0 /\ err' = NoError /\ delivered' = <<>>
  /\ memo' = [memo EXCEPT !.calls = @ + 1,
                          !.final = IF @.known THEN @
                                    ELSE [known |-> TRUE, k |-> k, err |-> err,
                                          delivered |-> delivered]]
  /\ UNCHANGED <<sheet, config, doc_src, doc, ti, locals, out, collected, units>>

NextReplay == Next \/ Restart

SpecReplay == InitReplay /\ [][NextReplay]_vars

\* ------------------------------------------------- tag_to_excel_sheet
\* str(n) of a natural number: its decimal digits.
Digits == <<"0", "1", "2", "3", "4", "5", "6", "7", "8", "9">>
RECURSIVE Str(_)
Str(n) == IF n < 10 THEN <<Digits[n + 1]>> ELSE Str(n \div 10) \o <<Digits[(n % 10) + 1]>>

\* separator.join(strings)
RECURSIVE JoinWith(_, _)
JoinWith(strings, separator) ==
  IF strings = <<>> THEN <<>>
  ELSE IF Len(strings) = 1 THEN strings[1]
  ELSE strings[1] \o <<separator>> \o JoinWith(Tail(strings), separator)

\* The arguments language and wikipedia_article_name of the call, and the
\* header cells A1..J1.
Language == "english"
WikipediaArticleName == "Nile"
Headers ==
  <<"id", "sentence id", "token id", "token", "lemma", "POS", "predicted USAS",
    "predicted MWE", "corrected USAS", "corrected MWE">>

\* _id = f"{language}|{wikipedia_article_name}|{sentence_id}|{token_id}"
IdOfToken(sentence_id, token_id) ==
  <<Language, "|", WikipediaArticleName, "|">> \o Str(sentence_id) \o <<"|">>
    \o Str(token_id)

\* mwe_index_string: the IDs of the token joined with ";" in the order the
\* set is iterated in ("" for no ID).
MWEIndexStrings(mwe_indexes_of_token) ==
  {JoinWith([i \in 1..Len(order) |-> Str(order[i])], ";") :
     order \in SetIterationOrders(mwe_indexes_of_token)}

\* worksheet_row_index += 1 after the rows of a sentence.
NoSkip(row_index) == row_index
SkipRow(row_index) == row_index + 1

\* The rows the inner loop writes for one record, the first one at
\* row_index: the cells A-F and H of each token.  Column G holds a string
\* built from the tags with the label mapper of data_utils.
TokenRows(tagged_text, sentence_id, row_index) ==
  LET n == Len(tagged_text.tokens)
      strings == UNION {MWEIndexStrings(tagged_text.mwe_indexes[t]) : t \in 1..n}
  IN  {[t \in 1..n |->
          [row |-> row_index + (t - 1),
           id |-> IdOfToken(sentence_id, t - 1),
           sentence_id |-> sentence_id,
           token_id |-> t - 1,
           token |-> tagged_text.tokens[t],
           lemma |-> tagged_text.lemmas.val[t],
           pos_tag |-> tagged_text.pos_tags.val[t],
           mwe_index_string |-> h[t]]] :
         h \in {g \in [1..n -> strings] :
                  \A t \in 1..n : g[t] \in MWEIndexStrings(tagged_text.mwe_indexes[t])}}

\* The ValueError of lines 60-63 for a record without lemmas / POS tags.
AttributeNoneError(attribute) ==
  [type |-> "ValueError", field |-> attribute, expected_len |-> -1,
   actual_len |-> -1, expected_type |-> "", actual_type |-> ""]

\* tag_to_excel_sheet has opened the workbook and added the worksheet; it
\* calls tag_text with a splitter and the attribute names lemma_ and pos_.
InitSheet ==
  /\ pc = "opened"
  /\ consumer = "sheet"
  /\ tagger = "fixed"
  /\ splitter = TRUE /\ sent_start = TRUE
  /\ lemma_ext = TRUE /\ pos_ext = TRUE
  /\ text \in Texts
  /\ memo = NoMemo
  /\ InitCommon /\ NoWorksheet

\* The headers go to row 1, the first token row is row 2, and tag_text is
\* called.
WriteHeaders ==
  /\ pc = "opened"
  /\ worksheet' = [worksheet EXCEPT !.headers = Headers]
  /\ worksheet_row_index' = 2
  /\ pc' = "created"
  /\ UNCHANGED <<config, k, doc_src, doc, ti, locals, out, err, delivered,
                 collected, units, memo>>

\* The body of the loop over the records for the record just yielded, whose
\* sentence_id enumerate() counts from 0: one row per token, then one row
\* skipped, and the next record is asked for.
WriteRows ==
  /\ pc = "yielded"
  /\ consumer = "sheet"
  /\ LET tagged_text == out.val
         sentence_id == Len(delivered)
     IN  IF tagged_text.lemmas.is_none \/ tagged_text.pos_tags.is_none
         THEN /\ err' = AttributeNoneError(IF tagged_text.lemmas.is_none
                                           THEN "lemma" ELSE "POS tag")
              /\ pc' = "failed"
              /\ UNCHANGED <<sheet, delivered, units>>
         ELSE /\ \E rows \in TokenRows(tagged_text, sentence_id, worksheet_row_index) :
                   worksheet' = [worksheet EXCEPT !.rows = @ \o rows]
              /\ worksheet_row_index' =
                   SkipRow(worksheet_row_index + Len(tagged_text.tokens))
              /\ delivered' = Append(delivered, tagged_text.text)
              /\ units' = Append(units, doc)
              /\ pc' = "head"
              /\ err' = err
  /\ out' = None
  /\ doc_src' = NoDoc /\ doc' = <<>> /\ ti' = 0
  /\ FreshLocals
  /\ UNCHANGED <<config, k, collected, memo>>

NextSheet ==
  WriteHeaders \/ StartUnit \/ Exhausted \/ TokenStep \/ ResolveMWE \/ YieldRecord
    \/ WriteRows

SpecSheet == InitSheet /\ [][NextSheet]_vars

\* ------------------------------------------- TaggedText used directly
\* A caller that builds a TaggedText itself, as the record tests do: it holds
\* the lists tokens, lemmas, pos_tags, usas_tag_groups and mwe_indexes and
\* passes lemmas / pos_tags or None (lemma_ext / pos_ext FALSE).
InitRecord ==
  /\ pc = "caller"
  /\ consumer = "direct"
  /\ tagger = "mwe"
  /\ splitter = FALSE /\ sent_start = TRUE
  /\ lemma_ext \in BOOLEAN /\ pos_ext \in BOOLEAN
  /\ text = <<>>
  /\ memo = NoMemo
  /\ InitCommon /\ NoWorksheet

ListOf(n, x) == [i \in 1..n |-> x]

\* TaggedText(text=.., tokens=.., lemmas=.., pos_tags=.., usas_tags=..,
\* mwe_indexes=..) with lists of any lengths.
ConstructDirect ==
  /\ pc = "caller"
  /\ \E nt \in 0..MaxTokens, nl \in 0..MaxTokens, np \in 0..MaxTokens,
        nu \in 0..MaxTokens, nm \in 0..MaxTokens :
       /\ lemma_ext \/ nl = 0
       /\ pos_ext \/ np = 0
       /\ tokens' = ListOf(nt, "w")
       /\ lemmas' = ListOf(nl, "l")
       /\ pos_tags' = ListOf(np, "p")
       /\ usas_tag_groups' = ListOf(nu, <<>>)
       /\ mwe_indexes' = ListOf(nm, {})
       /\ LET built == TaggedText(text, tokens',
                                  IF lemma_ext THEN Some(lemmas') ELSE None,
                                  IF pos_ext THEN Some(pos_tags') ELSE None,
                                  usas_tag_groups', mwe_indexes')
          IN  /\ out' = built.value
              /\ err' = built.error
              /\ pc' = IF built.ok THEN "constructed" ELSE "rejected"
  /\ UNCHANGED <<sheet, config, k, doc_src, doc, ti, all_mwe, delivered, collected, units,
                 memo>>

\* record.tokens = [..]: the class sets no model_config, so pydantic neither
\* freezes the instance nor validates the assignment.
AssignField ==
  /\ pc \in {"constructed", "mutated"}
  /\ \E n \in 0..MaxTokens : out' = Some([out.val EXCEPT !.tokens = ListOf(n, "w")])
  /\ pc' = "mutated"
  /\ UNCHANGED <<sheet, config, k, doc_src, doc, ti, locals, err, delivered, collected,
                 units, memo>>

\* record.mwe_indexes.append(set()): the fields are plain lists and sets.
MutateInPlace ==
  /\ pc \in {"constructed", "mutated"}
  /\ Len(out.val.mwe_indexes) <= MaxTokens
  /\ out' = Some([out.val EXCEPT !.mwe_indexes = Append(out.val.mwe_indexes, {})])
  /\ pc' = "mutated"
  /\ UNCHANGED <<sheet, config, k, doc_src, doc, ti, locals, err, delivered, collected,
                 units, memo>>

NextRecord == ConstructDirect \/ AssignField \/ MutateInPlace

SpecRecord == InitRecord /\ [][NextRecord]_vars

\* ================================================================ claims
\* Read off the tagger's Doc and the yielded record only.

\* The token indexes the ranges of a token cover.
Covered(ranges) == UNION {{i \in r[1]..(r[2] - 1) : TRUE} : r \in Range(ranges)}

\* The membership set of the token with index i of Doc d.
TokenSet(d, i) == Covered(d[i + 1].mwe.val)

\* The distinct membership sets of more than one element of Doc d.
MembershipSets(d) ==
  {S \in {TokenSet(d, i) : i \in 0..(Len(d) - 1)} : Cardinality(S) > 1}

\* Every range of Doc d lies within its tokens.
RangesWithin(d) ==
  \A i \in 1..Len(d) : \A r \in Range(d[i].mwe.val) :
     0 <= r[1] /\ r[1] <= r[2] /\ r[2] <= Len(d)

\* The IDs in a mwe_indexes list, and the token indexes that carry ID g.
IDsOf(mwe) == UNION {mwe[i] : i \in 1..Len(mwe)}
CarrierOf(mwe, g) == {i \in 0..(Len(mwe) - 1) : g \in mwe[i + 1]}

Yielded == pc = "yielded" /\ ~out.is_none
OutMWE == out.val.mwe_indexes

\* ---------------------------------------------------------------- C1
\* C1: constructing a TaggedText succeeds exactly when usas_tags and
\* mwe_indexes are as long as tokens and each of lemmas / pos_tags is None or
\* as long as tokens; then the record holds the lists as passed.  Otherwise a
\* ValueError is raised and there is no record.
ArgsFit ==
  /\ Len(usas_tag_groups) = Len(tokens)
  /\ Len(mwe_indexes) = Len(tokens)
  /\ lemma_ext => Len(lemmas) = Len(tokens)
  /\ pos_ext => Len(pos_tags) = Len(tokens)

C1_ConstructIffLengthsMatch ==
  pc \in {"constructed", "rejected"} =>
    /\ (pc = "constructed") <=> ArgsFit
    /\ pc = "constructed" =>
         /\ ~out.is_none /\ err = NoError
         /\ out.val.tokens = tokens
         /\ out.val.usas_tags = usas_tag_groups
         /\ out.val.mwe_indexes = mwe_indexes
         /\ out.val.lemmas = (IF lemma_ext THEN Some(lemmas) ELSE None)
         /\ out.val.pos_tags = (IF pos_ext THEN Some(pos_tags) ELSE None)
    /\ pc = "rejected" => out.is_none /\ err.type = "ValueError"

\* Lemmas and POS tags None, USAS tags as long as the two tokens, one MWE set
\* missing: rejected.
C1_Witness ==
  /\ pc = "rejected"
  /\ ~lemma_ext /\ ~pos_ext
  /\ Len(tokens) = 2 /\ Len(usas_tag_groups) = 2 /\ Len(mwe_indexes) = 1

\* ---------------------------------------------------------------- C2
\* C2: for a unit whose ranges lie within its tokens, the yielded
\* mwe_indexes[i] is the set of the IDs of the membership sets (of more than
\* one element) that contain i, for a numbering 1..K of the distinct sets that
\* ascends with their minimum; On/the/river/Nile gives [{1},{},{1},{1}].
Numberings(sets) ==
  {id \in [sets -> 1..Cardinality(sets)] :
     /\ \A S \in sets, T \in sets : S # T => id[S] # id[T]
     /\ \A S \in sets, T \in sets : Min(S) < Min(T) => id[S] < id[T]}

C2_IndexesAreIDsOfContainingSets ==
  (Yielded /\ RangesWithin(doc)) =>
    /\ \E id \in Numberings(MembershipSets(doc)) :
         \A i \in 0..(Len(doc) - 1) :
            OutMWE[i + 1] = {id[S] : S \in {T \in MembershipSets(doc) : i \in T}}
    /\ doc = NileDoc => OutMWE = <<{1}, {}, {1}, {1}>>

C2_Witness ==
  /\ Yielded
  /\ doc = NileDoc
  /\ OutMWE = <<{1}, {}, {1}, {1}>>

\* ---------------------------------------------------------------- C3
\* C3: of two membership sets of a unit, the one with the smaller minimum
\* token index has the strictly smaller ID.
C3_IDsAscendWithMinimum ==
  Yielded =>
    \A S \in MembershipSets(doc), T \in MembershipSets(doc) :
       Min(S) < Min(T) =>
         \E g \in IDsOf(OutMWE), h \in IDsOf(OutMWE) :
            /\ CarrierOf(OutMWE, g) = S
            /\ CarrierOf(OutMWE, h) = T
            /\ g < h

\* The later token supplies the set with the smaller minimum.
C3_Witness ==
  /\ Yielded
  /\ Len(doc) = 3
  /\ TokenSet(doc, 0) = {1, 2}
  /\ TokenSet(doc, 1) = {0, 1}
  /\ OutMWE = <<{1}, {1, 2}, {2}>>

\* ---------------------------------------------------------------- C4
\* C4: tokens with the same membership set share one ID: as many IDs are
\* issued as there are distinct membership sets of more than one element,
\* every ID marks exactly the tokens of one of them, and no two sets share
\* an ID.
C4_OneIDPerDistinctSet ==
  Yielded =>
    /\ Cardinality(IDsOf(OutMWE)) = Cardinality(MembershipSets(doc))
    /\ \A g \in IDsOf(OutMWE) : CarrierOf(OutMWE, g) \in MembershipSets(doc)
    /\ \A S \in MembershipSets(doc) :
         \E g \in IDsOf(OutMWE) : CarrierOf(OutMWE, g) = S
    /\ \A g \in IDsOf(OutMWE), h \in IDsOf(OutMWE) :
         g # h => CarrierOf(OutMWE, g) # CarrierOf(OutMWE, h)

\* Two tokens supply the same set: one ID.
C4_Witness ==
  /\ Yielded
  /\ Len(doc) = 3
  /\ TokenSet(doc, 0) = {0, 1, 2}
  /\ TokenSet(doc, 1) = {}
  /\ TokenSet(doc, 2) = {0, 1, 2}
  /\ IDsOf(OutMWE) = {1}

\* ---------------------------------------------------------------- C5
\* C5: the integers in the mwe_indexes of a yielded record are exactly 1..K,
\* K the number of distinct membership sets of more than one element of that
\* unit; this holds for every unit of a call, whatever came before it.
C5_IDsAreOneToK ==
  Yielded => IDsOf(OutMWE) = 1..Cardinality(MembershipSets(doc))

\* The second unit of a call, with two membership sets.
C5_Witness ==
  /\ Yielded
  /\ k = 2
  /\ Cardinality(MembershipSets(doc)) = 2
  /\ IDsOf(OutMWE) = {1, 2}

\* ---------------------------------------------------------------- C6
\* A token without ranges, or with the single range [i, i+1).
NoOwnMWE(d, i) == d[i + 1].mwe.val = <<>> \/ d[i + 1].mwe.val = <<<<i, i + 1>>>>

\* C6 as stated: a token without ranges, or whose only range is [i, i+1),
\* has the empty set in mwe_indexes, whatever ranges the other tokens carry.
C6_NoRangesGivesEmptySet ==
  Yielded =>
    \A i \in 0..(Len(doc) - 1) : NoOwnMWE(doc, i) => OutMWE[i + 1] = {}

\* C6 amended: in a unit whose ranges lie within its tokens, a token without
\* ranges, or whose only range is [i, i+1), has the empty set in mwe_indexes
\* unless its index lies in the membership set (of more than one element) of
\* another token; in that case it carries the IDs of exactly those sets.
C6_NoRangesGivesEmptySetUnlessCovered ==
  (Yielded /\ RangesWithin(doc)) =>
    \A i \in 0..(Len(doc) - 1) :
       NoOwnMWE(doc, i) =>
         /\ (\A S \in MembershipSets(doc) : i \notin S) => OutMWE[i + 1] = {}
         /\ Cardinality(OutMWE[i + 1]) =
              Cardinality({S \in MembershipSets(doc) : i \in S})

\* Token 2 has only its own range [2, 3) while tokens 0 and 1 form an MWE.
C6_Witness ==
  /\ Yielded
  /\ Len(doc) = 3
  /\ doc[3].mwe.val = <<<<2, 3>>>>
  /\ TokenSet(doc, 0) = {0, 1}
  /\ OutMWE = <<{1}, {1}, {}>>

\* ---------------------------------------------------------------- C7
\* C7: two units of the same length whose Docs give the same collection of
\* distinct membership sets, from whatever tokens and in whatever order, get
\* identical mwe_indexes, also when two sets share their minimum.
C7_SameSetsSameIndexes ==
  \A a \in 1..Len(collected), b \in 1..Len(collected) :
     (/\ Len(units[a]) = Len(units[b])
      /\ MembershipSets(units[a]) = MembershipSets(units[b]))
       => collected[a].mwe_indexes = collected[b].mwe_indexes

\* ---------------------------------------------------------------- C8
\* The ID whose carrier in mwe_indexes list mwe is S (0 when there is none).
IDOfSet(mwe, S) ==
  IF \E g \in IDsOf(mwe) : CarrierOf(mwe, g) = S
  THEN CHOOSE g \in IDsOf(mwe) : CarrierOf(mwe, g) = S
  ELSE 0

\* C8: two distinct membership sets with the same minimum get their IDs by a
\* fixed rule: in any two units with the same membership sets each of the two
\* has the same ID, however the sets were inserted.
C8_TiesBrokenByFixedRule ==
  \A a \in 1..Len(collected), b \in 1..Len(collected) :
     (/\ Len(units[a]) = Len(units[b])
      /\ MembershipSets(units[a]) = MembershipSets(units[b]))
       => \A S \in MembershipSets(units[a]), T \in MembershipSets(units[a]) :
             (S # T /\ Min(S) = Min(T)) =>
                /\ IDOfSet(collected[a].mwe_indexes, S) = IDOfSet(collected[b].mwe_indexes, S)
                /\ IDOfSet(collected[a].mwe_indexes, T) = IDOfSet(collected[b].mwe_indexes, T)

\* ---------------------------------------------------------------- C9
\* C9: overlapping membership sets do not make the resolution fail (it fails
\* only on an index outside the unit), and a token lying in m distinct
\* membership sets of more than one element carries exactly m IDs.
C9_OverlapGivesOneIDPerSet ==
  /\ Yielded =>
       \A i \in 0..(Len(doc) - 1) :
          Cardinality(OutMWE[i + 1]) =
            Cardinality({S \in MembershipSets(doc) : i \in S})
  /\ (pc = "failed" /\ err.type = "IndexError") =>
       \E S \in MembershipSets(doc) : ~(S \subseteq 0..(Len(doc) - 1))

\* Token 1 lies in {0,1} and in {1,2}.
C9_Witness ==
  /\ Yielded
  /\ MembershipSets(doc) = {{0, 1}, {1, 2}}
  /\ OutMWE = <<{1}, {1, 2}, {2}>>

\* ---------------------------------------------------------------- C10
\* C10: a constructed TaggedText is read-only: no operation on it changes
\* its content.
C10_ReadOnlyAfterConstruction ==
  [][(pc \in {"constructed", "mutated"}) => (out' = out)]_vars

\* ---------------------------------------------------------------- C11
\* The sentences a splitter makes of the text, read off the text.
SplitterSentences == [i \in 1..Len(text) |-> <<text[i]>>]

\* C11: with a sentence splitter the records handed out are those of the
\* splitter's sentences, one each and in the splitter's order, record k with
\* the text of sentence k: what was delivered is at any time a prefix of the
\* sentences, the record being yielded is the one of the next sentence, and
\* a call that ends without an exception has delivered every sentence; a
\* splitter that returns no sentence gives no record.
C11_OneRecordPerSentenceInOrder ==
  splitter =>
    /\ Len(delivered) <= Len(SplitterSentences)
    /\ \A i \in 1..Len(delivered) : delivered[i] = SplitterSentences[i]
    /\ Yielded => /\ Len(delivered) < Len(SplitterSentences)
                  /\ out.val.text = SplitterSentences[Len(delivered) + 1]
    /\ (pc = "done" /\ err = NoError) => delivered = SplitterSentences
    /\ text = <<>> => (delivered = <<>> /\ ~Yielded)

\* Two sentences, two records, in order.
C11_Witness ==
  /\ splitter /\ sent_start
  /\ pc = "done" /\ err = NoError
  /\ delivered = << <<1>>, <<2>> >>

\* ---------------------------------------------------------------- C12
\* C12: without a sentence splitter the text is one unit: at most one record
\* is handed out, its text is the input text, and a call that ends without
\* an exception has delivered exactly that one record, also for the empty
\* text.
C12_NoSplitterOneRecord ==
  ~splitter =>
    /\ Len(delivered) <= 1
    /\ Yielded => (out.val.text = text /\ delivered = <<>>)
    /\ (pc = "done" /\ err = NoError) => delivered = <<text>>

\* The empty text gives one record with the empty text.
C12_Witness ==
  /\ ~splitter
  /\ text = <<>>
  /\ pc = "done" /\ err = NoError
  /\ delivered = << <<>> >>

\* ---------------------------------------------------------------- C13
\* The attributes tag_text is configured to read, and the type of each.
Configured ==
  {"text", "usas", "mwe"} \cup (IF lemma_ext THEN {"lemma"} ELSE {})
    \cup (IF pos_ext THEN {"pos"} ELSE {})
ExpectedType(attribute) == IF attribute \in {"usas", "mwe"} THEN "list" ELSE "str"

\* The configured attributes token has with another type than expected, and
\* the ones it does not have.
MistypedOf(token) ==
  {a \in Configured : token[a].type \notin {ExpectedType(a), "missing"}}
MissingOf(token) == {a \in Configured : token[a].type = "missing"}

\* The USAS list of the token, if it is one, holds strs only.
HoldsStrs(token) == token.usas.type = "list" => NonStr \notin Range(token.usas.val)

\* The token at which the unit in work failed.
FailedToken == doc[Len(doc)]
FailedAtToken == pc = "failed" /\ doc # <<>> /\ err.type # "IndexError"

ValuesOf(d, a) == [i \in 1..Len(d) |-> d[i][a].val]

\* C15: lemmas is None when no lemma extension is configured and the list of
\* the tokens' lemmas in token order when one is, and the same for pos_tags,
\* whatever the other is; an attribute that is not configured is not read
\* (it may be missing or of any type, and no exception names it or its list).
C15_LemmasAndPosOnlyWhenConfigured ==
  /\ Yielded =>
       /\ out.val.lemmas = (IF lemma_ext THEN Some(ValuesOf(doc, "lemma")) ELSE None)
       /\ out.val.pos_tags = (IF pos_ext THEN Some(ValuesOf(doc, "pos")) ELSE None)
  /\ (pc = "failed" /\ ~lemma_ext) => err.field \notin {"lemma", "lemmas"}
  /\ (pc = "failed" /\ ~pos_ext) => err.field \notin {"pos", "pos_tags"}

\* POS tags configured, lemmas not: the lemma of the first token is missing
\* and nobody notices.
C15_Witness ==
  /\ Yielded
  /\ ~lemma_ext /\ pos_ext
  /\ Len(doc) = 2
  /\ doc[1].lemma.type = "missing"
  /\ out.val.lemmas = None
  /\ out.val.pos_tags = Some(<< <<"p", 0>>, <<"p", 1>>>>)

\* ---------------------------------------------------------------- C17
\* C17: a configured attribute that a token does not have is reported like a
\* mistyped one: processing of the unit fails with a ValueError that names
\* the attribute and the expected type.
C17_MissingAttributeRaisesValueError ==
  (FailedAtToken /\ MissingOf(FailedToken) # {} /\ HoldsStrs(FailedToken)) =>
     /\ err.type = "ValueError"
     /\ err.field \in MissingOf(FailedToken) \cup MistypedOf(FailedToken)
     /\ err.expected_type = ExpectedType(err.field)

\* ---------------------------------------------------------------- C14
\* The number of units of the call, read off the text.
NumberOfUnits == IF splitter THEN Len(text) ELSE 1

\* C14: the failure of one sentence does not keep its siblings from being
\* processed: when the iteration over a call's records has ended, every
\* sentence the splitter returned has been handed to the tagger, the ones
\* after a failed sentence too.
C14_FailureSparesSiblingUnits ==
  (pc = "done" /\ err # SentsError) => k = NumberOfUnits

\* ---------------------------------------------------------------- C19
\* C19: a splitter whose pipeline sets no sentence boundaries raises
\* ValueError at the first request for a sentence, whatever the text: no unit
\* is processed and no record handed out, so the text is never passed on as
\* one sentence.
C19_SplitterWithoutBoundariesRaises ==
  (splitter /\ ~sent_start /\ pc # "created") =>
     /\ err = SentsError
     /\ pc \in {"failed", "done"}
     /\ k = 0 /\ delivered = <<>>

\* ---------------------------------------------------------------- C16
\* C16: processing the same input again gives the same again.  A unit text
\* that was processed before, in this call or in an earlier call with the
\* same tagger, splitter and configuration, yields the record it yielded
\* then (or raises the exception it raised then), whatever was processed in
\* between; and a later call ends as the first call ended, after as many
\* units, with the same texts delivered and the same exception, if any.
C16_SameInputSameRecords ==
  memo.on =>
    /\ Yielded => (memo.seen[Unit].known /\ out = memo.seen[Unit].out)
    /\ pc = "failed" =>
         /\ memo.seen[Unit].known
         /\ memo.seen[Unit].out.is_none
         /\ err = memo.seen[Unit].err
    /\ (pc = "done" /\ memo.final.known) =>
         /\ k = memo.final.k
         /\ err = memo.final.err
         /\ delivered = memo.final.delivered

\* The second call reaches the second sentence, whose two MWEs share their
\* minimum, and yields for it what the first call yielded.
C16_Witness ==
  /\ memo.on /\ memo.calls = 2
  /\ Yielded /\ k = 2
  /\ text = <<1, 2>>
  /\ doc = TieDoc
  /\ OutMWE = <<{1, 2}, {1, 2}, {1}>>
  /\ out = memo.seen[Unit].out

\* ---------------------------------------------------------------- C18
\* A raw tag string with at least one piece and without a blank.
IsPlainRaw(raw) == raw # <<>> /\ \A i \in 1..Len(raw) : raw[i] # " "

\* The string a parsed tag was read from, and the string a group was read
\* from: its tags joined by "/".
TagString(t) == <<t.tag>> \o [i \in 1..t.number_positive_markers |-> "+"]
RECURSIVE TagsString(_)
TagsString(tags) ==
  IF Len(tags) = 1 THEN TagString(tags[1])
  ELSE TagString(tags[1]) \o <<"/">> \o TagsString(Tail(tags))
GroupString(group) == IF group.tags = <<>> THEN <<>> ELSE TagsString(group.tags)

\* C18: in a yielded record, a token whose raw USAS tags are k non-empty
\* strings without whitespace has k tag groups, group j being read from the
\* j-th string: its tags are the "/"-separated alternatives of that string
\* in their order.  A token without raw tags has no group.
C18_OneGroupPerRawTagInOrder ==
  Yielded =>
    \A i \in 1..Len(doc) :
       LET raw_tags == doc[i].usas.val
           groups == out.val.usas_tags[i]
       IN  /\ raw_tags = <<>> => groups = <<>>
           /\ (\A j \in 1..Len(raw_tags) : IsPlainRaw(raw_tags[j])) =>
                /\ Len(groups) = Len(raw_tags)
                /\ \A j \in 1..Len(groups) :
                     /\ groups[j].tags # <<>>
                     /\ GroupString(groups[j]) = raw_tags[j]

\* A raw tag with two alternatives: one group, Z3 before Z5.
C18_Witness ==
  /\ Yielded
  /\ Len(doc) = 1
  /\ doc[1].usas.val = << <<"Z3", "/", "Z5">> >>
  /\ out.val.usas_tags[1] =
       << [tags |-> <<[tag |-> "Z3", number_positive_markers |-> 0],
                      [tag |-> "Z5", number_positive_markers |-> 0]>>] >>

\* ---------------------------------------------------------------- C20
\* The raw tag strings the Tag Parser accepts alternative by alternative: a
\* code, markers after it, and after every "/" another code.
WellFormedRaw(raw) ==
  /\ raw # <<>>
  /\ raw[1] \in Codes
  /\ \A i \in 2..Len(raw) :
        /\ raw[i] \in Codes \cup Markers \cup {"/"}
        /\ raw[i] \in Codes => raw[i - 1] = "/"
        /\ raw[i] = "/" => (i < Len(raw) /\ raw[i + 1] \in Codes)

\* The raw tag strings of a token.
RawTagsOf(token) == Range(token.usas.val)

FieldOrder == <<"lemmas", "pos_tags", "usas_tags", "mwe_indexes">>
PassedLen(f) ==
  IF f = "lemmas" THEN Len(lemmas)
  ELSE IF f = "pos_tags" THEN Len(pos_tags)
  ELSE IF f = "usas_tags" THEN Len(usas_tag_groups)
  ELSE Len(mwe_indexes)
IsPassed(f) == (f = "lemmas" => lemma_ext) /\ (f = "pos_tags" => pos_ext)
Mismatching == {j \in 1..Len(FieldOrder) :
                  IsPassed(FieldOrder[j]) /\ PassedLen(FieldOrder[j]) # Len(tokens)}

\* C21: a failed construction raises one error, which names the first
\* mismatching field in the order lemmas, pos_tags, usas_tags, mwe_indexes,
\* the number of tokens and the length of that field.
C21_ErrorNamesFirstMismatch ==
  pc = "rejected" =>
    /\ Mismatching # {}
    /\ err.type = "ValueError"
    /\ err.field = FieldOrder[Min(Mismatching)]
    /\ err.expected_len = Len(tokens)
    /\ err.actual_len = PassedLen(err.field)

\* Lemmas and MWE indexes both differ from the two tokens: lemmas is named.
C21_Witness ==
  /\ pc = "rejected"
  /\ lemma_ext
  /\ Len(tokens) = 2 /\ Len(lemmas) = 1 /\ Len(mwe_indexes) = 3
  /\ err = LengthError("lemmas", 2, 1)

\* ---------------------------------------------------------------- C22
\* The units of the call whose record has been handed out: a prefix.
DeliveredPrefix == [i \in 1..Len(delivered) |-> Sentences[i]]

\* C22: tag_text is lazy and hands out a prefix before it fails: nothing is
\* tagged before the first request; the number of units tagged never exceeds
\* the number of records requested (the records handed out and, while a unit
\* is in work, the one asked for); when unit k fails the records of the units
\* before it have been handed out as yielded, the failure comes in place of
\* record k, and no record follows it.
C22_LazyPrefixBeforeFailure ==
  /\ pc = "created" => (k = 0 /\ doc_src = NoDoc /\ delivered = <<>> /\ out.is_none)
  /\ delivered = DeliveredPrefix
  /\ pc = "head" => k = Len(delivered)
  /\ pc \in {"loop", "resolved", "yielded"} => k = Len(delivered) + 1
  /\ (pc = "failed" /\ err # SentsError) => (k = Len(delivered) + 1 /\ out.is_none)
  /\ (err # NoError /\ err # SentsError) =>
       (pc \in {"failed", "done"} /\ out.is_none /\ Len(delivered) = k - 1)

\* The second sentence failed after the record of the first was handed out,
\* and the iteration has ended.
C22_Witness ==
  /\ pc = "done"
  /\ err = TypeError("usas", "list", "str")
  /\ k = 2
  /\ delivered = << <<1>> >>

\* ---------------------------------------------------------------- C23
\* The order the attributes of a token are retrieved in, and the attributes
\* of a token whose retrieval or type check fails.
AttributeOrder == <<"text", "lemma", "pos", "usas", "mwe">>
FailingChecks(token) ==
  {j \in 1..Len(AttributeOrder) :
     /\ AttributeOrder[j] \in Configured
     /\ token[AttributeOrder[j]].type # ExpectedType(AttributeOrder[j])}

\* The token passes every check and its USAS list can be joined.
Passes(token) == FailingChecks(token) = {} /\ HoldsStrs(token)

LeavesUnit(d) ==
  \E S \in MembershipSets(d) : \E x \in S : x >= Len(d)

\* The loop over the tokens of the unit has ended.
AllTokensRead == doc_src.kind # "none" /\ Len(doc) = doc_src.len

\* C24: MWE ranges are not clamped or dropped.  A unit with a membership set
\* of more than one element that holds an index >= N never gets through the
\* resolution and yields no record; a unit all of whose ranges satisfy
\* 0 <= start <= end <= N never fails in the resolution.
C24_RangesLeavingUnitFail ==
  /\ (pc \in {"resolved", "yielded"} /\ AllTokensRead) => ~LeavesUnit(doc)
  /\ (pc = "failed" /\ err = IndexError) =>
       /\ out.is_none
       /\ AllTokensRead
       /\ LeavesUnit(doc)
       /\ ~RangesWithin(doc)
  /\ (pc = "failed" /\ AllTokensRead /\ RangesWithin(doc)) => err # IndexError

\* Two tokens, the first with the range [0, 3): IndexError, no record.
C24_Witness ==
  /\ pc = "failed" /\ err = IndexError /\ out.is_none
  /\ Len(doc) = 2
  /\ doc[1].mwe.val = << <<0, 3>> >>
  /\ doc[2].mwe.val = <<>>

\* ---------------------------------------------------------------- C25
\* The length of an optional list, -1 for None.
OptionalLen(list) == IF list.is_none THEN -1 ELSE Len(list.val)

\* C25: the lists _process_text hands to TaggedText fit by construction:
\* tokens, usas_tags and mwe_indexes hold one entry per token of the Doc,
\* lemmas / pos_tags too when configured and are None otherwise; tag_text
\* never fails with the length error of the record.
C25_LengthsFitByConstruction ==
  /\ pc \in {"loop", "resolved"} =>
       /\ Len(tokens) = ti /\ Len(usas_tag_groups) = ti /\ Len(mwe_indexes) = ti
       /\ Len(lemmas) = (IF lemma_ext THEN ti ELSE 0)
       /\ Len(pos_tags) = (IF pos_ext THEN ti ELSE 0)
  /\ Yielded =>
       /\ Len(out.val.tokens) = Len(doc)
       /\ Len(out.val.usas_tags) = Len(doc)
       /\ Len(out.val.mwe_indexes) = Len(doc)
       /\ OptionalLen(out.val.lemmas) = (IF lemma_ext THEN Len(doc) ELSE -1)
       /\ OptionalLen(out.val.pos_tags) = (IF pos_ext THEN Len(doc) ELSE -1)
  /\ pc \in {"failed", "done"} =>
       (err.expected_len = -1 /\ err.actual_len = -1
          /\ err.field \notin {"lemmas", "pos_tags", "usas_tags"})

\* Lemmas configured, POS tags not: two lemmas for two tokens.
C25_Witness ==
  /\ Yielded
  /\ lemma_ext /\ ~pos_ext
  /\ Len(doc) = 2
  /\ out.val.lemmas = Some(<< <<"l", 0>>, <<"l", 1>> >>)
  /\ out.val.pos_tags = None
  /\ Len(out.val.usas_tags) = 2 /\ Len(out.val.mwe_indexes) = 2

\* ---------------------------------------------------------------- C26
\* C26: in a record yielded for a unit whose ranges lie within its tokens,
\* every MWE ID is carried by at least two tokens: a membership set of fewer
\* than two elements gets no ID.
C26_EveryIDOnTwoTokens ==
  (Yielded /\ RangesWithin(doc)) =>
    \A g \in IDsOf(OutMWE) : Cardinality(CarrierOf(OutMWE, g)) >= 2

\* The first token names only itself, the second tokens 1 and 2: one ID, on
\* the tokens 1 and 2.
C26_Witness ==
  /\ Yielded
  /\ Len(doc) = 3
  /\ doc[1].mwe.val = << <<0, 1>> >>
  /\ doc[2].mwe.val = << <<1, 3>> >>
  /\ doc[3].mwe.val = <<>>
  /\ OutMWE = <<{}, {1}, {1}>>

\* ---------------------------------------------------------------- C27
\* The row the claim gives token t (from 0) of sentence s (from 0), n_j being
\* the number of tokens of sentence j.
RECURSIVE RowsBefore(_)
RowsBefore(s) == IF s = 0 THEN 0 ELSE RowsBefore(s - 1) + Len(units[s]) + 1
ClaimedRow(s, t) == 2 + RowsBefore(s) + t

\* The tokens written so far, as pairs <<s, t>>.
WrittenTokens ==
  UNION {{<<s - 1, t - 1>> : t \in 1..Len(units[s])} : s \in 1..Len(units)}
RowsOf(s, t) ==
  {i \in 1..Len(worksheet.rows) :
     worksheet.rows[i].sentence_id = s /\ worksheet.rows[i].token_id = t}

\* C27: the headers stand in row 1; every token of every sentence written has
\* exactly one row, the row 2 + sum over j < s of (n_j + 1) + t, which holds
\* s, t and the token's text, lemma and POS tag; the rows are written in
\* ascending order, and no two rows share a row number or an id.
C27_OneRowPerTokenOneGapPerSentence ==
  pc \notin {"opened"} =>
    /\ worksheet.headers = Headers
    /\ \A p \in WrittenTokens :
         /\ Cardinality(RowsOf(p[1], p[2])) = 1
         /\ \A i \in RowsOf(p[1], p[2]) :
              /\ worksheet.rows[i].row = ClaimedRow(p[1], p[2])
              /\ worksheet.rows[i].token = units[p[1] + 1][p[2] + 1].text.val
              /\ worksheet.rows[i].lemma = units[p[1] + 1][p[2] + 1].lemma.val
              /\ worksheet.rows[i].pos_tag = units[p[1] + 1][p[2] + 1].pos.val
    /\ \A i \in 1..Len(worksheet.rows) :
         /\ <<worksheet.rows[i].sentence_id, worksheet.rows[i].token_id>> \in WrittenTokens
         /\ worksheet.rows[i].row >= 2
    /\ \A i, j \in 1..Len(worksheet.rows) :
         i < j => /\ worksheet.rows[i].row < worksheet.rows[j].row
                  /\ worksheet.rows[i].id # worksheet.rows[j].id
    /\ pc \in {"head", "done"} => worksheet_row_index = ClaimedRow(Len(units), 0)

\* Two sentences of three and one token: rows 2-4, row 5 empty, row 6.
C27_Witness ==
  /\ pc = "done" /\ err = NoError
  /\ Len(units) = 2 /\ Len(units[1]) = 3 /\ Len(units[2]) = 1
  /\ Len(worksheet.rows) = 4
  /\ worksheet.rows[3].row = 4
  /\ worksheet.rows[4].row = 6
  /\ worksheet.rows[4].sentence_id = 1 /\ worksheet.rows[4].token_id = 0
  /\ worksheet_row_index = 8

====
